---- MODULE Spec2Model ----
(***************************************************************************)
(* Model of proxy_checker.py: the dispatcher check_proxies (a counting     *)
(* semaphore in front of one asyncio task per proxy, collected by gather), *)
(* the two-stage probe check_proxy and the stall detector                  *)
(* check_tls_freeze (specification Spec), and the loading of the proxy     *)
(* file by load_proxies and parse_proxy_line (specification ParseSpec).    *)
(*                                                                         *)
(* One action is one step of an asyncio task: the code that runs between   *)
(* two suspension points.  The remote end (proxy, identity endpoints,      *)
(* payload server, timers) is the environment: every outcome of a network  *)
(* wait is drawn with \E from the outcomes the call can have.              *)
(***************************************************************************)
EXTENDS Integers, Sequences, FiniteSets

(* ---------------------------------------------------------------- bounds *)

\* Largest batch that is checked.
MaxProxies == 3
\* Largest value of the concurrency argument that is checked (0 included).
MaxConcurrency == 2
\* A single probe streams at most this many bytes in stage 2 (one chunk more
\* than the freeze window's upper bound).
MaxBytes == 26624
\* A stream delivers at most this many chunks shorter than CHUNK_SIZE.
MaxShortReads == 1
\* With several probes in one batch each stage-2 stream delivers at most this
\* many whole chunks before it ends; the single-probe batch reads byte-exact up
\* to MaxBytes.
MaxBatchChunks == 0
\* A line of the proxy file has at most this many colon-separated fields.
MaxFields == 5
\* load_proxies reads at most this many lines.
MaxLines == 3

(* ------------------------------------------------------ program constants *)

FREEZE_MIN_BYTES == 14 * 1024
FREEZE_MAX_BYTES == 25 * 1024
CHUNK_SIZE == 1024

VARIABLES
    nproxies,       \* len(proxies): the batch is the proxies 1..nproxies, in input order
    concurrency,    \* the concurrency argument of check_proxies
    value,          \* semaphore._value
    waiters,        \* semaphore._waiters: proxies whose task waits in acquire(), FIFO
    nextStart,      \* the next task whose first step the event loop will run
    pc,             \* per task: where it is suspended
    ep,             \* per probe: index into test_urls of the request in flight
    elapsed,        \* per probe: time.perf_counter() - start_time, in network waits
    ip_address,     \* per probe: the local ip_address of check_proxy
    response_time,  \* per probe: the local response_time of check_proxy
    downloaded,     \* per probe: downloaded_bytes of check_tls_freeze
    shortReads,     \* per probe: reads that gave fewer than CHUNK_SIZE bytes (history)
    requested,      \* per probe: the URLs it has requested so far (history)
    calls,          \* per probe: how many times check_proxy was entered (history)
    result,         \* per task: the ProxyResult it returned, if any
    inverted,       \* history: some probe finished before an earlier-submitted one
    mainpc,         \* check_proxies: "gather" while awaiting, then "returned"
    returned,       \* the list check_proxies returned
    lpc,            \* main / load_proxies: "open", "lines", "loaded", then "exit" or "dispatch"
    proxies,        \* load_proxies.proxies: the ProxyConfigs kept so far
    expected,       \* history: the field-wise decomposition of the well-formed lines read
    nread           \* history: the number of lines read from the file

vars == <<nproxies, concurrency, value, waiters, nextStart, pc, ep, elapsed,
          ip_address, response_time, downloaded, shortReads, requested, calls,
          result, inverted, mainpc, returned, lpc, proxies, expected, nread>>

semvars == <<value, waiters>>
probevars == <<ep, elapsed, ip_address, response_time, downloaded, shortReads,
               requested, calls>>
loadvars == <<lpc, proxies, expected, nread>>
dispvars == <<nproxies, concurrency, semvars, nextStart, pc, probevars, result,
              inverted, mainpc, returned>>

(* ------------------------------------------------------------ data model *)

None == <<>>
Some(x) == <<x>>

Slots == 1..MaxProxies
Proxies == 1..nproxies

\* ProxyConfig.__str__: host:port of the p-th entry (entries are told apart by p).
ProxyStr(p) == <<"host:port", p>>

\* The egress address the identity endpoints report for proxy p.
EgressIP(p) == <<"ip", p>>

Statuses == {"OK", "TLS_FREEZE", "TIMEOUT", "ERROR", "AUTH_FAILED"}

\* Exceptions a network wait can raise, by the except clause that tells them apart:
\* asyncio.TimeoutError, aiohttp.ClientProxyConnectionError, any other
\* aiohttp.ClientError, any other Exception.
Exceptions == {"timeout", "proxy_connection", "client", "other"}

\* Mutant of IsException: a handler that names the timeout and the aiohttp
\* errors only, so that a ValueError of response.json() is not caught.
IsExceptionNarrow(exc) == exc \in {"timeout", "proxy_connection", "client"}

\* except Exception: asyncio.TimeoutError, the aiohttp errors and whatever else
\* a request or response.json() raises all derive from Exception.
IsException(exc) == exc \in Exceptions

\* test_urls, in order, and freeze_test_url.
test_urls == <<"httpbin.org/ip", "api.ipify.org">>
freeze_test_url == "httpbin.org/bytes/102400"

ProxyResult(p, status, rt, bytes, msg, ip) ==
    [proxy |-> ProxyStr(p), status |-> status, response_time |-> rt,
     bytes_before_freeze |-> bytes, error_message |-> msg, ip_address |-> ip]

(* ------------------------------------------ parse_proxy_line, load_proxies *)

\* A str is a sequence of one-character strings.
NL == "\n"
Digits == {"0", "1", "2", "3", "4", "5", "6", "7", "8", "9"}
\* The characters str.strip() removes, of those that occur in the lines checked.
Whitespace == {" ", NL}

DigitValue(c) ==
    CASE c = "0" -> 0 [] c = "1" -> 1 [] c = "2" -> 2 [] c = "3" -> 3
      [] c = "4" -> 4 [] c = "5" -> 5 [] c = "6" -> 6 [] c = "7" -> 7
      [] c = "8" -> 8 [] c = "9" -> 9

RECURSIVE LStrip(_)
LStrip(s) == IF s # <<>> /\ s[1] \in Whitespace THEN LStrip(Tail(s)) ELSE s

RECURSIVE RStrip(_)
RStrip(s) ==
    IF s # <<>> /\ s[Len(s)] \in Whitespace
    THEN RStrip(SubSeq(s, 1, Len(s) - 1)) ELSE s

\* Mutant of Strip: only the line terminator is removed, line.rstrip("\n").
StripNewline(s) ==
    IF s # <<>> /\ s[Len(s)] = NL THEN SubSeq(s, 1, Len(s) - 1) ELSE s

\* str.strip()
Strip(s) == RStrip(LStrip(s))

\* str.startswith, for a one-character prefix
StartsWith(s, c) == s # <<>> /\ s[1] = c

\* str.split(sep): the parts between the separators, one more than there
\* are separators (so never an empty list).
RECURSIVE Split(_, _)
Split(s, sep) ==
    LET idx == {i \in 1..Len(s) : s[i] = sep}
    IN  IF idx = {} THEN <<s>>
        ELSE LET i == CHOOSE i \in idx : \A j \in idx : i <= j
             IN  <<SubSeq(s, 1, i - 1)>> \o Split(SubSeq(s, i + 1, Len(s)), sep)

RECURSIVE Decimal(_)
Decimal(s) ==
    IF s = <<>> THEN 0
    ELSE Decimal(SubSeq(s, 1, Len(s) - 1)) * 10 + DigitValue(s[Len(s)])

\* int(port_str): surrounding whitespace is ignored, then an optional sign and
\* one or more decimal digits; None stands for the ValueError.  (Underscores
\* between digits, which int() also takes, do not occur in the lines checked.)
IntOf(text) ==
    LET t == Strip(text)
        signed == t # <<>> /\ t[1] \in {"+", "-"}
        digits == IF signed THEN Tail(t) ELSE t
    IN  IF digits = <<>> \/ \E i \in 1..Len(digits) : digits[i] \notin Digits
        THEN None
        ELSE Some(IF signed /\ t[1] = "-" THEN 0 - Decimal(digits)
                  ELSE Decimal(digits))

ProxyConfig(host, port, username, password) ==
    [host |-> host, port |-> port, username |-> username, password |-> password]

\* How a call ends: it returns v, or an exception leaves it.
Returns(v) == [raised |-> FALSE, value |-> v]
Raises == [raised |-> TRUE, value |-> None]

\* if len(parts) != 4: return None
FieldCountOk(parts) == Len(parts) = 4

parse_proxy_line(line0) ==
    LET line == Strip(line0)
        parts == Split(line, ":")
    IN  IF line = <<>> \/ StartsWith(line, "#") THEN Returns(None)
        ELSE IF ~FieldCountOk(parts) THEN Returns(None)
        ELSE IF Len(parts) # 4 THEN Raises    \* host, port_str, username, password = parts
        ELSE LET port == IntOf(parts[2])
             IN  IF port = None THEN Returns(None)
                 ELSE Returns(Some(ProxyConfig(parts[1], port[1], parts[3], parts[4])))

\* if proxy: a ProxyConfig is always true, None never.
Truthy(x) == x # None

(* The lines that are checked.  A line is written from a list of fields, joined  *)
(* by colons, in one of four ways: as it is with its newline, commented out,   *)
(* padded with blanks, or as the last line of a file that has no final newline. *)

\* A field is one of two texts: h, which is no number, and 70000.
FieldTexts == {<<"h">>, <<"7", "0", "0", "0", "0">>}

FieldSeqs == UNION {[1..k -> FieldTexts] : k \in 0..MaxFields}

Decorations ==
    {[pre |-> <<>>, post |-> <<NL>>],
     [pre |-> <<"#">>, post |-> <<NL>>],
     [pre |-> <<" ">>, post |-> <<" ", NL>>],
     [pre |-> <<>>, post |-> <<>>]}

RECURSIVE Join(_)
Join(fields) ==
    IF fields = <<>> THEN <<>>
    ELSE IF Len(fields) = 1 THEN fields[1]
    ELSE fields[1] \o <<":">> \o Join(Tail(fields))

Render(fields, deco) == deco.pre \o Join(fields) \o deco.post

\* What the line written from fields and deco is expected to give: the number
\* a field text stands for, whether the line is a well-formed entry, and its
\* field-wise decomposition.
PortValue(text) ==
    IF text = <<"7", "0", "0", "0", "0">> THEN Some(70000) ELSE None

WellFormed(fields, deco) ==
    /\ deco.pre # <<"#">>
    /\ Len(fields) = 4
    /\ PortValue(fields[2]) # None

FieldWise(fields) ==
    ProxyConfig(fields[1], PortValue(fields[2])[1], fields[3], fields[4])

\* load_proxies finds no file at the path: it returns the empty list.
LoadMissing ==
    /\ lpc = "open"
    /\ lpc' = "loaded"
    /\ UNCHANGED <<proxies, expected, nread, dispvars>>

\* The file exists and is opened.
LoadOpen ==
    /\ lpc = "open"
    /\ lpc' = "lines"
    /\ UNCHANGED <<proxies, expected, nread, dispvars>>

\* One pass of `for line in f`: the next line of the file is parsed and kept
\* if parse_proxy_line gave a ProxyConfig.
LoadLine(fields, deco) ==
    /\ lpc = "lines"
    /\ nread < MaxLines
    /\ fields \in FieldSeqs
    /\ deco \in Decorations
    /\ LET r == parse_proxy_line(Render(fields, deco))
       IN  /\ lpc' = IF r.raised THEN "aborted" ELSE "lines"
           /\ proxies' = IF ~r.raised /\ Truthy(r.value)
                         THEN Append(proxies, r.value[1]) ELSE proxies
    /\ expected' = IF WellFormed(fields, deco)
                   THEN Append(expected, FieldWise(fields)) ELSE expected
    /\ nread' = nread + 1
    /\ UNCHANGED dispvars

\* The file is at its end: load_proxies returns proxies.
LoadReturn ==
    /\ lpc = "lines"
    /\ lpc' = "loaded"
    /\ UNCHANGED <<proxies, expected, nread, dispvars>>

\* main: if not proxies: sys.exit(1); otherwise the list goes to check_proxies.
MainCheck ==
    /\ lpc = "loaded"
    /\ lpc' = IF proxies = <<>> THEN "exit" ELSE "dispatch"
    /\ UNCHANGED <<proxies, expected, nread, dispvars>>

\* The list of n entries a run of check_proxies is given: h:80:h:h,
\* hh:80:h:h, ...
SampleProxies(n) ==
    [i \in 1..n |-> ProxyConfig([j \in 1..i |-> "h"], 80, <<"h">>, <<"h">>)]

(* ------------------------------------------------------- check_tls_freeze *)

\* Mutant of InFreezeWindow: the lower bound taken exclusive.
InFreezeWindowExclusive(n) == FREEZE_MIN_BYTES < n /\ n <= FREEZE_MAX_BYTES

\* FREEZE_MIN_BYTES <= downloaded_bytes <= FREEZE_MAX_BYTES
InFreezeWindow(n) == FREEZE_MIN_BYTES <= n /\ n <= FREEZE_MAX_BYTES

\* What check_tls_freeze returns, <<is_frozen, bytes_downloaded>>, at each of
\* its return statements.
StatusReturn == <<FALSE, 0>>
\* Mutant of EofReturn: the window test applied to a completed download too.
EofReturnWindowed(n) == IF InFreezeWindow(n) THEN <<TRUE, n>> ELSE <<FALSE, n>>

EofReturn(n) == <<FALSE, n>>
StallReturn(n) == IF InFreezeWindow(n) THEN <<TRUE, n>> ELSE <<FALSE, n>>
\* Mutant of TimeoutReturn: the overall deadline handled like any other
\* exception, without the window test.
TimeoutReturnNotFrozen(n) == <<FALSE, n>>

TimeoutReturn(n) == IF InFreezeWindow(n) THEN <<TRUE, n>> ELSE <<FALSE, n>>
ExceptionReturn(n) == <<FALSE, n>>

\* The two outer except clauses of check_tls_freeze, in order: what the call
\* returns when exc is raised with n bytes read, None if neither clause
\* catches it.
TlsFreezeExcept(exc, n) ==
    CASE exc = "timeout" -> Some(TimeoutReturn(n))
      [] IsException(exc) -> Some(ExceptionReturn(n))
      [] OTHER -> None

(* ------------------------------------------------------------ check_proxy *)

\* f"{bytes_downloaded/1024:.1f}": tenths of a KB, rounded half to even (the
\* quotient is exact in binary floating point whenever it is a tie).
KBTenths(n) ==
    LET q == (n * 10) \div 1024
        r == (n * 10) % 1024
    IN  IF r > 512 \/ (r = 512 /\ q % 2 = 1) THEN q + 1 ELSE q

AuthFailedResult(p) ==
    ProxyResult(p, "AUTH_FAILED", None, None, Some(<<"Proxy authentication failed">>), None)

NoIpResult(p) ==
    ProxyResult(p, "ERROR", None, None, Some(<<"Failed to get IP through proxy">>), None)

FreezeResult(p, rt, bytes, ip) ==
    ProxyResult(p, "TLS_FREEZE", rt, Some(bytes),
                Some(<<"TLS freeze at KB", KBTenths(bytes)>>), ip)

OkResult(p, rt, ip) == ProxyResult(p, "OK", rt, None, None, ip)

\* The except clauses around the whole of check_proxy, in order.
OuterExcept(p, exc) ==
    CASE exc = "timeout" ->
           ProxyResult(p, "TIMEOUT", None, None, Some(<<"Connection timeout">>), None)
      [] exc = "proxy_connection" ->
           ProxyResult(p, "ERROR", None, None, Some(<<"Proxy connection error">>), None)
      [] exc = "client" ->
           ProxyResult(p, "ERROR", None, None, Some(<<"Client error">>), None)
      [] OTHER ->
           ProxyResult(p, "ERROR", None, None, Some(<<"Unknown error">>), None)

\* Which exceptions each handler catches: the except clause of the endpoint
\* loop, and the four clauses around check_proxy.
Stage1Catches(exc) == IsException(exc)
OuterCatches(exc) ==
    exc \in {"timeout", "proxy_connection", "client"} \/ IsException(exc)

\* What one identity request can come to: a 200 whose JSON holds the key, a 200
\* whose JSON lacks it (data.get gives None), a 200 whose body response.json()
\* rejects, a 407, any other status, or an exception.
Stage1Outcomes ==
    {"200_ip", "200_no_ip", "200_bad_json", "407", "other_status"} \cup Exceptions

\* The exception an outcome raises inside the try of the endpoint loop.
RaisedBy(o) == IF o = "200_bad_json" THEN "other" ELSE o

\* Mutant of Stage1Verdict: a 407 treated like any other non-200 status.
Stage1VerdictNo407(o) ==
    CASE o \in {"200_ip", "200_no_ip"} -> "break"
      [] o \in {"407", "other_status"} -> "next"
      [] OTHER -> IF Stage1Catches(RaisedBy(o)) THEN "next" ELSE "raise"

\* What the body of the endpoint loop does with an outcome: return the
\* AUTH_FAILED result, break out of the loop, go on to the next endpoint
\* (fall off the end of the body, or continue from the except clause), or let
\* the exception propagate.
Stage1Verdict(o) ==
    CASE o = "407" -> "return"
      [] o \in {"200_ip", "200_no_ip"} -> "break"
      [] o = "other_status" -> "next"
      [] OTHER -> IF Stage1Catches(RaisedBy(o)) THEN "next" ELSE "raise"

\* ip_address = data.get(ip_key)
IpFrom(p, o) == IF o = "200_ip" THEN Some(EgressIP(p)) ELSE None

\* Mutant of Stage2Allowed: the check for a missing IP left out.
Stage2AllowedAlways(ip) == TRUE

\* if ip_address is None: the probe stops before stage 2.
Stage2Allowed(ip) == ip # None

\* Mutant of Stage2Result: the bytes the detector counted reported on the OK
\* result as well.
Stage2ResultBytesAlways(p, ret, rt, ip) ==
    IF ret[1] THEN FreezeResult(p, rt, ret[2], ip)
    ELSE ProxyResult(p, "OK", rt, Some(ret[2]), None, ip)

\* The result check_proxy builds from what check_tls_freeze returned.
Stage2Result(p, ret, rt, ip) ==
    IF ret[1] THEN FreezeResult(p, rt, ret[2], ip) ELSE OkResult(p, rt, ip)

\* response_time = time.perf_counter() - start_time, taken when the endpoint
\* loop is left; t is the time elapsed then.
ResponseTime(t) == Some(t)

(* The locals of one probe, as a record, and the steps of check_proxy as      *)
(* functions from the locals at one suspension point to the locals at the     *)
(* next.  res is the value check_proxy returns, None while it runs; escaped   *)
(* is TRUE when an exception left check_proxy.                                *)

Locals(p) ==
    [pc |-> pc[p], ep |-> ep[p], elapsed |-> elapsed[p], ip |-> ip_address[p],
     rt |-> response_time[p], downloaded |-> downloaded[p], short |-> shortReads[p],
     requested |-> requested[p], res |-> None, escaped |-> FALSE]

\* check_proxy up to its first suspension: the request to test_urls[0].
EnterCheckProxy ==
    [pc |-> "stage1", ep |-> 1, elapsed |-> 0, ip |-> None, rt |-> None,
     downloaded |-> 0, short |-> 0, requested |-> {test_urls[1]}, res |-> None,
     escaped |-> FALSE]

\* check_proxy returns r.  The other locals stay as they were at the return
\* (downloaded is then the total at which stage 2 ended).
Return(l, r) == [l EXCEPT !.pc = "done", !.res = Some(r)]

\* An exception reaches the except clauses around check_proxy.
Propagate(p, l, exc) ==
    IF OuterCatches(exc) THEN Return(l, OuterExcept(p, exc))
    ELSE [l EXCEPT !.pc = "raised", !.escaped = TRUE]

\* After the endpoint loop: response_time is taken, then either the ERROR
\* result or the stage-2 request.
AfterLoop(p, l) ==
    LET m == [l EXCEPT !.rt = ResponseTime(l.elapsed)]
    IN  IF Stage2Allowed(m.ip)
        THEN [m EXCEPT !.pc = "stage2",
                       !.requested = m.requested \cup {freeze_test_url}]
        ELSE Return(m, NoIpResult(p))

\* One identity request completes with outcome o.
Stage1Step(p, l0, o) ==
    LET l == [l0 EXCEPT !.elapsed = l0.elapsed + 1]
        v == Stage1Verdict(o)
    IN  CASE v = "return" -> Return(l, AuthFailedResult(p))
          [] v = "break" -> AfterLoop(p, [l EXCEPT !.ip = IpFrom(p, o)])
          [] v = "raise" -> Propagate(p, l, RaisedBy(o))
          [] OTHER ->
               IF l.ep < Len(test_urls)
               THEN [l EXCEPT !.ep = l.ep + 1,
                              !.requested = l.requested \cup {test_urls[l.ep + 1]}]
               ELSE AfterLoop(p, l)

\* What the stage-2 request can come to before the first read.
Stage2Outcomes == {"200", "407", "other_status"} \cup Exceptions

\* Mutant of AfterFreeze: response_time taken after stage 2 instead of after
\* the endpoint loop.
AfterFreezeLateTime(p, l, ret) ==
    Return(l, Stage2Result(p, ret, Some(l.elapsed), l.ip))

\* check_tls_freeze has returned ret: check_proxy builds its result.
AfterFreeze(p, l, ret) == Return(l, Stage2Result(p, ret, l.rt, l.ip))

\* exc is raised inside check_tls_freeze: it returns from one of its except
\* clauses, or the exception goes on to the clauses around check_proxy.
FreezeRaise(p, l, exc) ==
    LET r == TlsFreezeExcept(exc, l.downloaded)
    IN  IF r = None THEN Propagate(p, l, exc) ELSE AfterFreeze(p, l, r[1])

\* Mutant of Stage2Step: a 407 to the stage-2 request treated like a 407 in
\* stage 1.
Stage2StepAuth(p, l0, o) ==
    LET l == [l0 EXCEPT !.elapsed = l0.elapsed + 1]
    IN  CASE o = "200" -> [l EXCEPT !.pc = "reading"]
          [] o = "407" -> Return(l, AuthFailedResult(p))
          [] o \in Exceptions -> FreezeRaise(p, l, o)
          [] OTHER -> AfterFreeze(p, l, StatusReturn)

\* The stage-2 request completes with outcome o.
Stage2Step(p, l0, o) ==
    LET l == [l0 EXCEPT !.elapsed = l0.elapsed + 1]
    IN  CASE o = "200" -> [l EXCEPT !.pc = "reading"]
          [] o \in Exceptions -> FreezeRaise(p, l, o)
          [] OTHER -> AfterFreeze(p, l, StatusReturn)

\* The lengths response.content.read(CHUNK_SIZE) can deliver, and how far a
\* stream goes.  A batch of one probe reads byte-exact (a full chunk, a chunk
\* one byte short, a single byte; at most MaxShortReads short ones); in a
\* larger batch every chunk is full and the stream ends after MaxBatchChunks.
AllChunkLens == {1, CHUNK_SIZE - 1, CHUNK_SIZE}
ChunkLens == IF nproxies = 1 THEN AllChunkLens ELSE {CHUNK_SIZE}
StreamLimit ==
    IF nproxies = 1 THEN MaxBytes ELSE MaxBatchChunks * CHUNK_SIZE

\* One pass of the read loop that got a non-empty chunk of n bytes.
ReadChunkStep(l, n) ==
    [l EXCEPT !.downloaded = l.downloaded + n,
              !.short = IF n < CHUNK_SIZE THEN l.short + 1 ELSE l.short]

\* The read loop ends: an empty chunk, the stall timeout of wait_for, the
\* overall deadline of the request, or another exception.
ReadEofStep(p, l) == AfterFreeze(p, l, EofReturn(l.downloaded))
ReadStallStep(p, l) == AfterFreeze(p, l, StallReturn(l.downloaded))
ReadDeadlineStep(p, l) == FreezeRaise(p, l, "timeout")
ReadErrorStep(p, l, exc) == FreezeRaise(p, l, exc)

(* ---------------------------------------------------------- the semaphore *)

\* Mutant of Locked: acquire() never finds the semaphore locked.
LockedNever == FALSE

\* Semaphore.locked(): no permit left, or somebody already waits.
Locked == value = 0 \/ waiters # <<>>

\* Mutant of NextWaiter: the waiter that queued up last is woken first.
NextWaiterLast ==
    LET idx == {i \in 1..Len(waiters) : pc[waiters[i]] = "waiting"}
    IN  IF idx = {} THEN 0
        ELSE waiters[CHOOSE i \in idx : \A j \in idx : i >= j]

\* The first waiter whose future is not done yet, 0 if there is none.
NextWaiter ==
    LET idx == {i \in 1..Len(waiters) : pc[waiters[i]] = "waiting"}
    IN  IF idx = {} THEN 0
        ELSE waiters[CHOOSE i \in idx : \A j \in idx : i <= j]

Without(q, p) == SelectSeq(q, LAMBDA x : x # p)

\* The woken waiter that runs next: the event loop resumes the tasks in the
\* order their futures were set, which is their order in the queue.
FirstWoken ==
    LET idx == {i \in 1..Len(waiters) : pc[waiters[i]] = "woken"}
    IN  IF idx = {} THEN 0
        ELSE waiters[CHOOSE i \in idx : \A j \in idx : i <= j]

\* Mutant of Released: the permit is not given back.
ReleasedNever(v, wake) == v

\* Semaphore.release() with value v: the value goes up by one, and
\* _wake_up_next takes it down again for the waiter it wakes, if any.
Released(v, wake) == IF wake = 0 THEN v + 1 ELSE v

(* --------------------------------------------------------------- the tasks *)

AllStarted == nextStart > nproxies

\* The task of p goes from its locals to the locals n: the per-probe variables,
\* and what follows the return of check_proxy inside check_with_semaphore: the
\* semaphore is released (value + 1, then _wake_up_next hands the permit to the
\* first waiter that is not done) and the task finishes with the result.  v and
\* w are the semaphore's value and waiters before the release.
Apply(p, n, v, w, pcs) ==
    LET over == n.pc \in {"done", "raised"}
        wake == IF over THEN NextWaiter ELSE 0
    IN  /\ pc' = [q \in Slots |->
                    IF q = p THEN n.pc
                    ELSE IF q = wake /\ q # 0 THEN "woken" ELSE pcs[q]]
        /\ ep' = [ep EXCEPT ![p] = n.ep]
        /\ elapsed' = [elapsed EXCEPT ![p] = n.elapsed]
        /\ ip_address' = [ip_address EXCEPT ![p] = n.ip]
        /\ response_time' = [response_time EXCEPT ![p] = n.rt]
        /\ downloaded' = [downloaded EXCEPT ![p] = n.downloaded]
        /\ shortReads' = [shortReads EXCEPT ![p] = n.short]
        /\ requested' = [requested EXCEPT ![p] = n.requested]
        /\ result' = [result EXCEPT ![p] = n.res]
        /\ value' = IF over THEN Released(v, wake) ELSE v
        /\ waiters' = w
        /\ inverted' = (inverted \/ (over /\ \E q \in Proxies : q < p /\ pc[q] # "done"))
        /\ mainpc' = IF n.escaped THEN "failed" ELSE mainpc

\* check_proxy is entered: the history counter of p goes up.
Enter(p) == calls' = [calls EXCEPT ![p] = calls[p] + 1]

\* The first step of the task of p, in the order gather created the tasks:
\* acquire() either takes a permit at once and check_proxy runs up to its first
\* request, or the task queues up behind the semaphore.
Start(p) ==
    /\ mainpc = "gather"
    /\ p = nextStart
    /\ p \in Proxies
    /\ pc[p] = "pending"
    /\ nextStart' = nextStart + 1
    /\ IF ~Locked
       THEN /\ Apply(p, EnterCheckProxy, value - 1, waiters, pc)
            /\ Enter(p)
       ELSE /\ waiters' = Append(waiters, p)
            /\ pc' = [pc EXCEPT ![p] = "waiting"]
            /\ UNCHANGED <<value, probevars, result, inverted, mainpc>>
    /\ UNCHANGED <<nproxies, concurrency, returned, loadvars>>

\* A woken waiter runs again: it leaves the queue, passes a spare permit on if
\* there is one, and check_proxy runs up to its first request.
Resume(p) ==
    /\ AllStarted
    /\ p \in Proxies
    /\ pc[p] = "woken"
    /\ p = FirstWoken
    /\ LET w == Without(waiters, p)
           spare == IF value > 0 THEN NextWaiter ELSE 0
       IN  /\ Apply(p, EnterCheckProxy,
                    IF spare # 0 THEN value - 1 ELSE value, w,
                    [q \in Slots |-> IF q = spare /\ q # 0 THEN "woken" ELSE pc[q]])
           /\ Enter(p)
    /\ UNCHANGED <<nproxies, concurrency, nextStart, returned, loadvars>>

\* The identity request of p completes.
Stage1Response(p, o) ==
    /\ AllStarted
    /\ p \in Proxies
    /\ pc[p] = "stage1"
    /\ o \in Stage1Outcomes
    /\ Apply(p, Stage1Step(p, Locals(p), o), value, waiters, pc)
    /\ UNCHANGED <<nproxies, concurrency, nextStart, calls, returned, loadvars>>

\* The stage-2 request of p completes.
Stage2Response(p, o) ==
    /\ AllStarted
    /\ p \in Proxies
    /\ pc[p] = "stage2"
    /\ o \in Stage2Outcomes
    /\ Apply(p, Stage2Step(p, Locals(p), o), value, waiters, pc)
    /\ UNCHANGED <<nproxies, concurrency, nextStart, calls, returned, loadvars>>

\* A read of the stage-2 stream delivers n bytes.
ReadChunk(p, n) ==
    /\ AllStarted
    /\ p \in Proxies
    /\ pc[p] = "reading"
    /\ n \in ChunkLens
    /\ downloaded[p] + n <= StreamLimit
    /\ n < CHUNK_SIZE => shortReads[p] < MaxShortReads
    /\ Apply(p, ReadChunkStep(Locals(p), n), value, waiters, pc)
    /\ UNCHANGED <<nproxies, concurrency, nextStart, calls, returned, loadvars>>

\* A read returns the empty chunk.
ReadEof(p) ==
    /\ AllStarted
    /\ p \in Proxies
    /\ pc[p] = "reading"
    /\ Apply(p, ReadEofStep(p, Locals(p)), value, waiters, pc)
    /\ UNCHANGED <<nproxies, concurrency, nextStart, calls, returned, loadvars>>

\* No data for FREEZE_STALL_TIMEOUT seconds: wait_for raises.
ReadStall(p) ==
    /\ AllStarted
    /\ p \in Proxies
    /\ pc[p] = "reading"
    /\ Apply(p, ReadStallStep(p, Locals(p)), value, waiters, pc)
    /\ UNCHANGED <<nproxies, concurrency, nextStart, calls, returned, loadvars>>

\* The overall deadline of the request fires during the read loop.
ReadDeadline(p) ==
    /\ AllStarted
    /\ p \in Proxies
    /\ pc[p] = "reading"
    /\ Apply(p, ReadDeadlineStep(p, Locals(p)), value, waiters, pc)
    /\ UNCHANGED <<nproxies, concurrency, nextStart, calls, returned, loadvars>>

\* A read raises something that is not a timeout.
ReadError(p, exc) ==
    /\ AllStarted
    /\ p \in Proxies
    /\ pc[p] = "reading"
    /\ exc \in Exceptions \ {"timeout"}
    /\ Apply(p, ReadErrorStep(p, Locals(p), exc), value, waiters, pc)
    /\ UNCHANGED <<nproxies, concurrency, nextStart, calls, returned, loadvars>>

(* ------------------------------------------------------------------ gather *)

\* Mutant of GatherResults: only the working proxies are kept.
GatherOkOnly ==
    SelectSeq([i \in 1..nproxies |-> result[i][1]], LAMBDA r : r.status = "OK")

\* Mutant of GatherResults: the results collected last task first.
GatherReversed == [i \in 1..nproxies |-> result[nproxies + 1 - i][1]]

\* list(results): gather gives the tasks' results in the order of the tasks.
GatherResults == [i \in 1..nproxies |-> result[i][1]]

\* Every task is done: gather resolves and check_proxies returns.
GatherReturn ==
    /\ mainpc = "gather"
    /\ AllStarted
    /\ \A p \in Proxies : pc[p] = "done"
    /\ returned' = GatherResults
    /\ mainpc' = "returned"
    /\ UNCHANGED <<nproxies, concurrency, semvars, nextStart, pc, probevars,
                   result, inverted, loadvars>>

(* ----------------------------------------------------------- specification *)

Init ==
    /\ nproxies \in 0..MaxProxies
    /\ concurrency \in 0..MaxConcurrency
    /\ value = concurrency
    /\ waiters = <<>>
    /\ nextStart = 1
    /\ pc = [p \in Slots |-> "pending"]
    /\ ep = [p \in Slots |-> 0]
    /\ elapsed = [p \in Slots |-> 0]
    /\ ip_address = [p \in Slots |-> None]
    /\ response_time = [p \in Slots |-> None]
    /\ downloaded = [p \in Slots |-> 0]
    /\ shortReads = [p \in Slots |-> 0]
    /\ requested = [p \in Slots |-> {}]
    /\ calls = [p \in Slots |-> 0]
    /\ result = [p \in Slots |-> None]
    /\ inverted = FALSE
    /\ mainpc = "gather"
    /\ returned = <<>>
    /\ lpc = "dispatch"
    /\ proxies = SampleProxies(nproxies)
    /\ expected = proxies
    /\ nread = nproxies

Next ==
    \/ \E p \in Slots : Start(p)
    \/ \E p \in Slots : Resume(p)
    \/ \E p \in Slots : \E o \in Stage1Outcomes : Stage1Response(p, o)
    \/ \E p \in Slots : \E o \in Stage2Outcomes : Stage2Response(p, o)
    \/ \E p \in Slots : \E n \in AllChunkLens : ReadChunk(p, n)
    \/ \E p \in Slots : ReadEof(p)
    \/ \E p \in Slots : ReadStall(p)
    \/ \E p \in Slots : ReadDeadline(p)
    \/ \E p \in Slots : \E exc \in Exceptions : ReadError(p, exc)
    \/ GatherReturn

Spec == Init /\ [][Next]_vars

\* The start of main: nothing is loaded and check_proxies has not been called.
ParseInit ==
    /\ lpc = "open"
    /\ proxies = <<>>
    /\ expected = <<>>
    /\ nread = 0
    /\ nproxies = 0
    /\ concurrency = 0
    /\ value = 0
    /\ waiters = <<>>
    /\ nextStart = 1
    /\ pc = [p \in Slots |-> "pending"]
    /\ ep = [p \in Slots |-> 0]
    /\ elapsed = [p \in Slots |-> 0]
    /\ ip_address = [p \in Slots |-> None]
    /\ response_time = [p \in Slots |-> None]
    /\ downloaded = [p \in Slots |-> 0]
    /\ shortReads = [p \in Slots |-> 0]
    /\ requested = [p \in Slots |-> {}]
    /\ calls = [p \in Slots |-> 0]
    /\ result = [p \in Slots |-> None]
    /\ inverted = FALSE
    /\ mainpc = "gather"
    /\ returned = <<>>

ParseNext ==
    \/ LoadMissing
    \/ LoadOpen
    \/ \E fields \in FieldSeqs : \E deco \in Decorations : LoadLine(fields, deco)
    \/ LoadReturn
    \/ MainCheck

\* The loading of the proxy file, from the start of main to the call of
\* check_proxies.
ParseSpec == ParseInit /\ [][ParseNext]_vars

(* ------------------------------------------------------------------ claims *)

\* The probes that have entered check_proxy and have not left it.
InFlight == {p \in Proxies : calls[p] > 0 /\ pc[p] \notin {"done", "raised"}}

\* The status of the result of p.
StatusOf(p) == result[p][1].status

\* The stage-1 time of p in network waits: one per identity request made.
IdentityRequests(p) == requested[p] \ {freeze_test_url}

\* C1: at every moment at most `concurrency` probes are inside check_proxy,
\* whatever the number of proxies and the interleaving of their steps.
C1_ConcurrencyCap == Cardinality(InFlight) <= concurrency

\* C1 witness: the cap is reached with a probe still queued behind the
\* semaphore after an earlier probe has finished and handed its permit on.
C1_Witness ==
    /\ concurrency >= 1
    /\ Cardinality(InFlight) = concurrency
    /\ \E p \in Proxies : pc[p] = "waiting"
    /\ \E p \in Proxies : pc[p] = "done"

\* C2: the returned list has one ProxyResult per submitted entry: as long as
\* the input, every entry probed once and reported once.
C2_OneResultPerEntry ==
    mainpc = "returned" =>
        /\ Len(returned) = nproxies
        /\ \A p \in Proxies :
             /\ calls[p] = 1
             /\ Cardinality({i \in 1..Len(returned) : returned[i].proxy = ProxyStr(p)}) = 1

\* C2 witness: a batch larger than the concurrency has returned, with a
\* failed probe among its results.
C2_Witness ==
    /\ mainpc = "returned"
    /\ nproxies > concurrency
    /\ nproxies >= 2
    /\ \E i \in 1..Len(returned) : returned[i].status # "OK"

\* C3: the i-th returned result is the result of the probe of the i-th input
\* proxy, whatever order the probes finished in.
C3_SubmissionOrder ==
    mainpc = "returned" =>
        \A i \in Proxies :
            /\ i <= Len(returned)
            /\ returned[i].proxy = ProxyStr(i)
            /\ returned[i] = result[i][1]

\* C3 witness: check_proxies has returned a batch in which some probe
\* finished before a probe submitted earlier.
C3_Witness == mainpc = "returned" /\ inverted /\ nproxies >= 2

\* C4: when a chunk read hits the stall timeout with running total T, the
\* detector reports frozen exactly when 14336 <= T <= 25600, returns T as the
\* byte count either way, and the probe is TLS_FREEZE exactly in that case.
C4_StallWindow ==
    [][\A p \in Slots :
         (pc[p] = "reading" /\ pc'[p] # "reading" /\ ReadStall(p)) =>
            LET T == downloaded[p]
                ret == StallReturn(T)
                inside == 14336 <= T /\ T <= 25600
            IN  /\ ret[1] = inside
                /\ ret[2] = T
                /\ (T = 14336 \/ T = 25600) => ret[1]
                /\ (T = 14335 \/ T = 25601) => ~ret[1]
                /\ result'[p] # None
                /\ (result'[p][1].status = "TLS_FREEZE") = inside
                /\ inside => result'[p][1].bytes_before_freeze = Some(T)]_vars

\* C4 witness: a probe whose stream stopped at exactly 14336 bytes has been
\* classified as frozen with that byte count.
C4_Witness ==
    \E p \in Proxies :
        /\ pc[p] = "done"
        /\ downloaded[p] = 14336
        /\ StatusOf(p) = "TLS_FREEZE"
        /\ result[p][1].bytes_before_freeze = Some(14336)

\* C5: a 407 from an identity endpoint ends the probe in that step with
\* AUTH_FAILED; no further URL is requested then or later, stage 2 is never
\* started, and a 407 from the primary endpoint leaves the fallback untouched.
C5_AuthFailedAtOnce ==
    [][\A p \in Slots :
         /\ (pc[p] = "stage1" /\ pc'[p] # "stage1" /\ Stage1Response(p, "407")) =>
              /\ result'[p] # None
              /\ result'[p][1].status = "AUTH_FAILED"
              /\ pc'[p] = "done"
              /\ requested'[p] = requested[p]
              /\ freeze_test_url \notin requested'[p]
              /\ ep[p] = 1 => requested'[p] = {test_urls[1]}
         /\ (result[p] # None /\ result[p][1].status = "AUTH_FAILED") =>
              /\ requested'[p] = requested[p]
              /\ result'[p] = result[p]
              /\ pc'[p] = "done"]_vars

\* C5 witness: a probe ended AUTH_FAILED having contacted the primary
\* endpoint only.
C5_Witness ==
    \E p \in Proxies :
        /\ pc[p] = "done"
        /\ StatusOf(p) = "AUTH_FAILED"
        /\ requested[p] = {test_urls[1]}

\* C6: a connection timeout in a stage-1 request or in the stage-2 request
\* gives the probe the status TIMEOUT (stated for the steps in which the
\* timeout is the last thing the probe sees: the timed-out request ends it).
C6_TimeoutGivesTimeout ==
    [][\A p \in Slots :
         (/\ pc[p] \in {"stage1", "stage2"}
          /\ result'[p] # None
          /\ Stage1Response(p, "timeout") \/ Stage2Response(p, "timeout"))
         => result'[p][1].status = "TIMEOUT"]_vars

\* The step changes something of the probe of p other than waking its task
\* from the semaphore's queue.
Touched(p) ==
    \/ result'[p] # result[p]
    \/ ip_address'[p] # ip_address[p]
    \/ response_time'[p] # response_time[p]
    \/ downloaded'[p] # downloaded[p]
    \/ requested'[p] # requested[p]
    \/ ep'[p] # ep[p]
    \/ calls'[p] # calls[p]
    \/ (pc'[p] # pc[p] /\ ~(pc[p] = "waiting" /\ pc'[p] = "woken"))

\* C7: no outcome lets an exception out of check_proxy or of check_proxies;
\* a probe that has ended has exactly one ProxyResult, with one of the five
\* statuses, that never changes; and no step changes anything of two probes
\* (so a failing step of one probe leaves every other probe as it was) but to
\* wake the next waiter of the semaphore.
C7_FailuresContained ==
    [][/\ mainpc' # "failed"
       /\ \A p \in Slots :
            /\ pc'[p] # "raised"
            /\ (pc'[p] = "done") = (result'[p] # None)
            /\ result'[p] # None =>
                 /\ result'[p][1].status \in Statuses
                 /\ result'[p][1].proxy = ProxyStr(p)
            /\ result[p] # None => result'[p] = result[p]
            /\ Touched(p) => \A q \in Slots \ {p} : ~Touched(q)]_vars

\* C7 witness: a batch has returned in which one probe failed on an exception
\* in both identity requests and another probe, run beside it, came out OK.
C7_Witness ==
    /\ mainpc = "returned"
    /\ concurrency >= 2
    /\ \E p, q \in Proxies :
         /\ StatusOf(p) = "ERROR"
         /\ requested[p] = {test_urls[1], test_urls[2]}
         /\ StatusOf(q) = "OK"

\* C8: stage 2 is requested only with an egress IP in hand; a probe whose
\* stage 1 ended without one (and without a 407) ends ERROR, "failed to get
\* IP", and never requests the freeze URL.
C8_Stage2NeedsIp ==
    \A p \in Proxies :
        /\ (freeze_test_url \in requested[p] \/ pc[p] \in {"stage2", "reading"}) =>
              ip_address[p] = Some(EgressIP(p))
        /\ (pc[p] = "done" /\ ip_address[p] = None) =>
              /\ freeze_test_url \notin requested[p]
              /\ StatusOf(p) \in {"ERROR", "AUTH_FAILED"}
              /\ StatusOf(p) = "ERROR" =>
                    result[p][1].error_message = Some(<<"Failed to get IP through proxy">>)

\* C8 witness: a probe ended ERROR after both identity endpoints failed to
\* yield an IP.
C8_Witness ==
    \E p \in Proxies :
        /\ pc[p] = "done"
        /\ StatusOf(p) = "ERROR"
        /\ ip_address[p] = None
        /\ requested[p] = {test_urls[1], test_urls[2]}

\* C9: a stream that stalls at a total T inside the freeze window gives
\* TLS_FREEZE with bytes_before_freeze = T, response_time = the stage-1 time
\* and ip_address = the IP of stage 1: the result is a function of the stream.
C9_FreezeResult ==
    [][\A p \in Slots :
         (/\ pc[p] = "reading" /\ pc'[p] # "reading"
          /\ 14336 <= downloaded[p] /\ downloaded[p] <= 25600
          /\ ReadStall(p)) =>
            /\ result'[p] # None
            /\ result'[p][1].proxy = ProxyStr(p)
            /\ result'[p][1].status = "TLS_FREEZE"
            /\ result'[p][1].bytes_before_freeze = Some(downloaded[p])
            /\ result'[p][1].response_time = Some(Cardinality(IdentityRequests(p)))
            /\ result'[p][1].ip_address = Some(EgressIP(p))
            /\ result'[p][1].ip_address = ip_address[p]
            /\ result'[p][1].error_message # None]_vars

\* C9 witness: 20480 bytes then a hang, after the fallback endpoint gave the
\* IP: TLS_FREEZE with 20480 bytes and the time of two identity requests.
C9_Witness ==
    \E p \in Proxies :
        /\ pc[p] = "done"
        /\ StatusOf(p) = "TLS_FREEZE"
        /\ result[p][1].bytes_before_freeze = Some(20480)
        /\ result[p][1].response_time = Some(2)
        /\ result[p][1].error_message = Some(<<"TLS freeze at KB", 200>>)

\* C10: stage 2 ending by an empty read, by a stall outside the window or by
\* an exception that is no timeout makes the detector report not frozen with
\* the bytes read so far, and the probe OK with response_time and ip_address
\* set and bytes_before_freeze unset.
C10_NotFrozenIsOk ==
    [][\A p \in Slots :
         LET T == downloaded[p]
             outside == ~(14336 <= T /\ T <= 25600)
             ok == /\ result'[p] # None
                   /\ result'[p][1].status = "OK"
                   /\ result'[p][1].response_time = Some(Cardinality(IdentityRequests(p)))
                   /\ result'[p][1].ip_address = Some(EgressIP(p))
                   /\ result'[p][1].bytes_before_freeze = None
         IN  /\ (pc[p] = "reading" /\ pc'[p] # "reading") =>
                  /\ ReadEof(p) => (EofReturn(T) = <<FALSE, T>> /\ ok)
                  /\ (outside /\ ReadStall(p)) => (StallReturn(T) = <<FALSE, T>> /\ ok)
                  /\ \A exc \in Exceptions \ {"timeout"} :
                       ReadError(p, exc) =>
                          (TlsFreezeExcept(exc, T) = Some(<<FALSE, T>>) /\ ok)
             /\ (pc[p] = "stage2" /\ pc'[p] # "stage2") =>
                  \A exc \in Exceptions \ {"timeout"} :
                     Stage2Response(p, exc) =>
                        (TlsFreezeExcept(exc, T) = Some(<<FALSE, 0>>) /\ ok)]_vars

\* C10 witness: a probe came out OK after its stream had delivered 25601
\* bytes, one more than the window holds.
C10_Witness ==
    \E p \in Proxies :
        /\ pc[p] = "done"
        /\ downloaded[p] = 25601
        /\ StatusOf(p) = "OK"
        /\ result[p][1].response_time # None
        /\ result[p][1].ip_address # None

\* The fields of a ProxyResult that go with its status.
FieldsByStatus(r) ==
    /\ r.status \in Statuses
    /\ (r.bytes_before_freeze # None) = (r.status = "TLS_FREEZE")
    /\ r.bytes_before_freeze # None =>
         (14336 <= r.bytes_before_freeze[1] /\ r.bytes_before_freeze[1] <= 25600)
    /\ (r.response_time # None) = (r.status \in {"OK", "TLS_FREEZE"})
    /\ (r.ip_address # None) = (r.status \in {"OK", "TLS_FREEZE"})
    /\ (r.error_message # None) = (r.status # "OK")

\* C11: in every ProxyResult of check_proxy bytes_before_freeze is set exactly
\* with TLS_FREEZE and then lies in 14336..25600, response_time and ip_address
\* are set exactly with OK and TLS_FREEZE, and error_message is set exactly with
\* the statuses other than OK.  Checked on every result a task holds, on the
\* returned list, and on what each except clause around check_proxy builds.
C11_StatusFields ==
    /\ \A p \in Proxies : result[p] # None => FieldsByStatus(result[p][1])
    /\ \A i \in 1..Len(returned) : FieldsByStatus(returned[i])
    /\ \A p \in Slots : \A exc \in Exceptions : FieldsByStatus(OuterExcept(p, exc))

\* C11 witness: a probe ended TLS_FREEZE at the upper end of the window, 25600
\* bytes, with all four optional fields set.
C11_Witness ==
    \E p \in Proxies :
        /\ pc[p] = "done"
        /\ StatusOf(p) = "TLS_FREEZE"
        /\ result[p][1].bytes_before_freeze = Some(25600)
        /\ result[p][1].response_time # None
        /\ result[p][1].ip_address # None
        /\ result[p][1].error_message = Some(<<"TLS freeze at KB", 250>>)

\* C12: a non-empty batch always comes to its full result set, whatever the
\* concurrency value and the outcomes of the probes: the run never stands
\* still before check_proxies has returned (stated for finite runs: in every
\* state of a run over a non-empty list either check_proxies has returned or
\* some task can take a step).
C12_FullResultSet ==
    nproxies >= 1 => (mainpc = "returned" \/ ENABLED Next)

\* C13: parse_proxy_line gives, for a line of exactly four colon-separated
\* fields with an integer port, the ProxyConfig of the four fields in order,
\* and no ProxyConfig and no exception for any other number of fields, a
\* non-numeric port, a blank line or a '#' line; so load_proxies never aborts
\* and holds exactly the decompositions of the well-formed lines read so far,
\* in the order of the file.  (The fields are those of the line without its
\* surrounding blanks and newline.)
C13_ParseFieldWise ==
    /\ lpc # "aborted"
    /\ proxies = expected
    /\ Len(proxies) <= nread

\* C13 witness: three lines were read, one of them rejected, and the two
\* ProxyConfigs kept differ and stand in the order of their lines.
C13_Witness ==
    /\ lpc = "dispatch"
    /\ nread = 3
    /\ Len(proxies) = 2
    /\ proxies[1] = ProxyConfig(<<"h">>, 70000, <<"7", "0", "0", "0", "0">>, <<"h">>)
    /\ proxies[2] = ProxyConfig(<<"7", "0", "0", "0", "0">>, 70000, <<"h">>, <<"h">>)

\* C14: every ProxyConfig that parsing produces, and so every one handed to
\* check_proxies, has its port in 1..65535.
C14_PortInRange ==
    \A i \in 1..Len(proxies) : proxies[i].port \in 1..65535

\* C15: when the overall deadline fires during the stage-2 read loop with a
\* running total outside the freeze window (below 14336 or above 25600), the
\* probe's result has status TIMEOUT.
C15_DeadlineOutsideWindow ==
    [][\A p \in Slots :
         (/\ pc[p] = "reading" /\ pc'[p] # "reading"
          /\ ~(14336 <= downloaded[p] /\ downloaded[p] <= 25600)
          /\ ReadDeadline(p)) =>
            /\ result'[p] # None
            /\ result'[p][1].status = "TIMEOUT"]_vars

\* C16: when the overall deadline (not the per-chunk stall timeout) ends the
\* stage-2 read loop with a running total T in 14336..25600, the detector
\* applies the window test to T and the probe is TLS_FREEZE with
\* bytes_before_freeze = T.
C16_DeadlineInsideWindow ==
    [][\A p \in Slots :
         (/\ pc[p] = "reading" /\ pc'[p] # "reading"
          /\ 14336 <= downloaded[p] /\ downloaded[p] <= 25600
          /\ ReadDeadline(p)) =>
            /\ TimeoutReturn(downloaded[p]) = <<TRUE, downloaded[p]>>
            /\ result'[p] # None
            /\ result'[p][1].status = "TLS_FREEZE"
            /\ result'[p][1].bytes_before_freeze = Some(downloaded[p])
            /\ downloaded'[p] = downloaded[p]]_vars

\* C16 witness: the read loop ended in the middle of a chunk, at 24577 bytes
\* (24 chunks and one byte), and the probe is TLS_FREEZE with that total.
C16_Witness ==
    \E p \in Proxies :
        /\ pc[p] = "done"
        /\ downloaded[p] = 24577
        /\ StatusOf(p) = "TLS_FREEZE"
        /\ result[p][1].bytes_before_freeze = Some(24577)

\* C17: stage 1 goes on to the fallback endpoint when an endpoint answers 200
\* without an IP value, and the probe ends ERROR only after every identity
\* endpoint has been tried and has failed to yield an IP.
C17_ErrorAfterEveryEndpoint ==
    \A p \in Proxies :
        (pc[p] = "done" /\ StatusOf(p) = "ERROR") =>
            \A i \in 1..Len(test_urls) : test_urls[i] \in requested[p]

\* The probes that hold a permit: admitted through the semaphore (at once, or
\* woken with the permit of a probe that finished) and not yet finished.
Holders == {p \in Proxies : pc[p] \in {"woken", "stage1", "stage2", "reading"}}

\* C18: the semaphore is acquired before check_proxy and released after it,
\* whatever the probe's outcome: in every state the free permits and the
\* probes in flight (those holding a permit) add up to N = concurrency, no
\* probe is inside check_proxy or has been through it without having been
\* given a permit, and when check_proxies returns every probe has finished
\* and all N permits are free.
C18_PermitAccounting ==
    /\ value >= 0
    /\ value + Cardinality(Holders) = concurrency
    /\ InFlight \subseteq Holders
    /\ \A p \in Proxies : pc[p] \in {"pending", "waiting", "woken"} => calls[p] = 0
    /\ mainpc = "returned" =>
         /\ \A p \in Proxies : pc[p] = "done" /\ result[p] # None
         /\ value = concurrency
         /\ waiters = <<>>

\* C18 witness: a batch larger than N has returned with all N permits free,
\* one of its probes having failed and another probe having waited at the gate.
C18_Witness ==
    /\ mainpc = "returned"
    /\ concurrency = 2
    /\ nproxies = 3
    /\ value = 2
    /\ \E p \in Proxies : StatusOf(p) = "AUTH_FAILED"

\* C19: probes are admitted in submission order: a probe holds or has held a
\* permit, and has entered check_proxy, only if every probe before it in the
\* input has; with concurrency 1 a probe is admitted only after every probe
\* before it has finished.
C19_AdmissionOrder ==
    \A p, q \in Proxies :
        p < q =>
            /\ pc[q] \notin {"pending", "waiting"} => pc[p] \notin {"pending", "waiting"}
            /\ calls[q] > 0 => calls[p] > 0
            /\ (concurrency = 1 /\ pc[q] \notin {"pending", "waiting"}) => pc[p] = "done"

\* C19 witness: with concurrency 1 and three proxies, two of which queued up
\* at the gate, the third probe runs after the first two have finished.
C19_Witness ==
    /\ concurrency = 1
    /\ nproxies = 3
    /\ pc[1] = "done"
    /\ pc[2] = "done"
    /\ pc[3] = "stage1"
    /\ calls[3] = 1

\* C20: when the stage-2 request is answered with a status other than 200,
\* a 407 included, the detector reads nothing and returns <<FALSE, 0>>, and
\* the probe, which has passed stage 1, is OK with the response_time and
\* ip_address of stage 1: not ERROR, AUTH_FAILED or TIMEOUT.
C20_Stage2StatusIsOk ==
    [][\A p \in Slots :
         (/\ pc[p] = "stage2" /\ pc'[p] # "stage2"
          /\ Stage2Response(p, "407") \/ Stage2Response(p, "other_status")) =>
            /\ StatusReturn = <<FALSE, 0>>
            /\ pc'[p] = "done"
            /\ downloaded'[p] = 0
            /\ result'[p] # None
            /\ result'[p][1].status = "OK"
            /\ result'[p][1].response_time = response_time[p]
            /\ result'[p][1].ip_address = Some(EgressIP(p))
            /\ result'[p][1].bytes_before_freeze = None
            /\ result'[p][1].error_message = None]_vars

\* C20 witness: a probe that got its IP from the fallback endpoint and then
\* asked for the payload ended OK with nothing read.
C20_Witness ==
    \E p \in Proxies :
        /\ pc[p] = "done"
        /\ requested[p] = {test_urls[1], test_urls[2], freeze_test_url}
        /\ downloaded[p] = 0
        /\ StatusOf(p) = "OK"
        /\ result[p][1].response_time = Some(2)

====
